---- MODULE Spec2Model ----
(***************************************************************************)
(* Model of svg-metagen (src/app.py): the ConversionWorker thread that     *)
(* exports SVG assets to per-platform derivative sets, and the handlers of *)
(* SVGConverterApp that start it, stop it and receive its signals.         *)
(*                                                                         *)
(* The file system is a set of directories and a set of files; a source    *)
(* asset is named by its index in svg_files and described by the intrinsic *)
(* width _get_svg_dimensions reads from it.  Every call into cairosvg,     *)
(* PIL, zipfile, os or Inkscape may succeed or fail.                       *)
(*                                                                         *)
(* Spec is a session in which the user starts workers and stops them;      *)
(* SpecUI adds the folder dialog and the platform checkboxes; SpecDims and *)
(* SpecProgress apply _get_svg_dimensions and the percentage of run to     *)
(* inputs drawn from bounded sets.                                         *)
(***************************************************************************)
EXTENDS Integers, Sequences, FiniteSets, TLC

\* ------------------------------------------------------------- bounds
\* The size of a session: the assets of the folder, plus the platforms
\* checked, plus the workers started before the one that is starting.
MaxWork == 4

\* The clicks on platform checkboxes, Select All and Deselect All in a session
\* of SpecUI.
MaxToggles == 2

\* The most assets of a job whose percentages SpecProgress computes.
MaxTotalFiles == 50

\* The longest width or height attribute, in characters, and the most tokens
\* of a viewBox attribute, of the documents of SpecDims.
MaxAttrLen == 2
MaxTokens == 5

\* -------------------------------------------------- program constants
BaseDim == 1000
ScaleOptions == 10

None == "None"

\* A path under output_dir: <output_dir>/<dir>/<base>.<ext>.  NonePath is the
\* value None where the code expects a path, Unbound a local not yet assigned.
NonePath == [dir |-> "None", base |-> 0, ext |-> "None"]
Unbound == [dir |-> "unbound", base |-> 0, ext |-> "unbound"]

\* The platform keys in the order of the dict of create_output_directories.
PlatformOrder ==
  << "shutterstock", "vectorstock", "pngtree", "dreamstime",
     "adobestock", "canva", "miricanvas", "desainstock" >>

Platforms == { PlatformOrder[j] : j \in 1..Len(PlatformOrder) }

platforms(key) ==
  CASE key = "shutterstock" -> "Shutterstock"
    [] key = "vectorstock"  -> "Vectorstock"
    [] key = "pngtree"      -> "PNGTree"
    [] key = "dreamstime"   -> "Dreamstime"
    [] key = "adobestock"   -> "AdobeStock"
    [] key = "canva"        -> "Canva"
    [] key = "miricanvas"   -> "MiriCanvas"
    [] key = "desainstock"  -> "Desainstock"

\* The converter calls of process_file, in program order.
process_file_calls ==
  << [key |-> "shutterstock", op |-> "eps"],
     [key |-> "vectorstock",  op |-> "eps"],
     [key |-> "vectorstock",  op |-> "jpg"],
     [key |-> "pngtree",      op |-> "png"],
     [key |-> "pngtree",      op |-> "eps"],
     [key |-> "pngtree",      op |-> "zip"],
     [key |-> "pngtree",      op |-> "delete"],
     [key |-> "dreamstime",   op |-> "jpg"],
     [key |-> "dreamstime",   op |-> "eps"],
     [key |-> "adobestock",   op |-> "copy"],
     [key |-> "canva",        op |-> "png"],
     [key |-> "miricanvas",   op |-> "crop"],
     [key |-> "desainstock",  op |-> "jpg"] >>

NCalls == Len(process_file_calls)
EndOfFile == NCalls + 1

\* What _get_svg_dimensions yields as the width of a source document: a
\* number, nothing (None), or a float int() cannot convert (inf, nan).
IntrinsicWidths ==
  { [kind |-> "finite", value |-> 200],
    [kind |-> "None", value |-> 0],
    [kind |-> "nonfinite", value |-> 0] }

VARIABLES
  \* SVGConverterApp
  svg_files,         \* sequence of assets, each given by its intrinsic width
  checked,           \* platform keys whose checkbox is checked
  scale_combo,       \* scale_combo.currentData()
  force_1x1_checkbox,
  start_btn,         \* start_btn.isEnabled()
  stop_btn,
  open_folder_btn,
  runs,              \* workers started so far
  toggles,           \* clicks on platform checkboxes and on the two buttons
  detached,          \* threads still running when self.worker was rebound
  \* environment
  dirs,              \* directories under output_dir
  files,             \* files of input_dir and under output_dir
  temps,             \* temporary PNG files in existence
  orphans,           \* Inkscape subprocesses whose parent thread is gone
  \* ConversionWorker
  wstate,            \* "none", "running", "finished", "error", "terminated"
  selected_formats,
  scale_factor,
  force_1x1,
  pc,                \* "mkdirs", "loop", "call", "subprocess"
  i,                 \* 1-based index of the asset in process_file
  k,                 \* index into process_file_calls
  png_path,
  eps_path,
  ret,               \* value the last converter call returned
  failed,            \* <<asset, key>>: a call of that recipe failed or raised
  log,               \* log_update events of the last converter call
  request,           \* the last render request made
  made,              \* directories this worker called makedirs for
  progress,          \* percentages of the progress_update events, in order
  sig,               \* terminal signal queued for the UI thread
  err,               \* the exception error_occurred reports, and its origin
  \* _get_svg_dimensions applied to a document
  svg_doc,           \* the document of svg_file
  dimensions,        \* what the call returned and whether it logged
  \* the percentage of run applied to an index and a total
  loop_index,
  total_files,
  current_progress

uiVars == << svg_files, checked, scale_combo, force_1x1_checkbox, start_btn,
             stop_btn, open_folder_btn, runs, toggles, detached >>
envVars == << dirs, files, temps, orphans >>
workerVars == << wstate, selected_formats, scale_factor, force_1x1, pc, i, k,
                 png_path, eps_path, ret, failed, log, request, made, sig,
                 err, progress >>
pureVars == << svg_doc, dimensions, loop_index, total_files, current_progress >>
vars == << uiVars, envVars, workerVars, pureVars >>

\* self.input_dir, the folder the source assets are in
input_dir == "input_dir"

\* The source asset os.listdir finds j-th in input_dir.
Source(j) ==
  [dir |-> input_dir, base |-> j, ext |-> "svg", content |-> "source",
   entries |-> {}]

NoRequest ==
  [fmt |-> "none", via |-> "none", output_width |-> 0, output_height |-> 0,
   scale |-> 0]

\* ------------------------------------------------------------ helpers
Key == process_file_calls[k].key
Op == process_file_calls[k].op
platform == platforms(Key)

\* the loop variable of run
svg_file == [dir |-> input_dir, base |-> i, ext |-> "svg"]

\* os.path.join(self.output_dir, platform, f"{base_name}.<ext>")
output_path(ext) == [dir |-> platform, base |-> i, ext |-> ext]

NextCall(j, sel) ==
  IF \E m \in (j + 1)..NCalls : process_file_calls[m].key \in sel
  THEN CHOOSE m \in (j + 1)..NCalls :
         /\ process_file_calls[m].key \in sel
         /\ \A m2 \in (j + 1)..(m - 1) : process_file_calls[m2].key \notin sel
  ELSE EndOfFile

PathOf(f) == [dir |-> f.dir, base |-> f.base, ext |-> f.ext]

Exists(fs, path) == \E f \in fs : PathOf(f) = path

\* open(path, 'wb') and friends: the path holds the new content afterwards.
WriteFile(fs, path, content, entries) ==
  { f \in fs : PathOf(f) # path }
    \cup { [dir |-> path.dir, base |-> path.base, ext |-> path.ext,
            content |-> content, entries |-> entries] }

base_dim == BaseDim * scale_factor

\* The keyword arguments the code passes to cairosvg.svg2png / svg2eps.
cairosvg_request(fmt) ==
  IF force_1x1
  THEN [fmt |-> fmt, via |-> "cairosvg", output_width |-> base_dim,
        output_height |-> base_dim, scale |-> 0]
  ELSE [fmt |-> fmt, via |-> "cairosvg", output_width |-> 0,
        output_height |-> 0, scale |-> scale_factor]

\* The --export-width the EPS fallback passes to Inkscape.
inkscape_eps_request(width) ==
  [fmt |-> "eps", via |-> "inkscape",
   output_width |-> IF width.kind = "finite" THEN width.value * scale_factor
                    ELSE BaseDim * scale_factor,
   output_height |-> 0, scale |-> 0]

inkscape_crop_request ==
  [fmt |-> "svg", via |-> "inkscape", output_width |-> 0, output_height |-> 0,
   scale |-> 0]

\* A converter call returns to process_file, which goes on to its next call.
\* `good` tells whether the call produced what its recipe asks of it.
Returns(value, good, lines) ==
  /\ ret' = value
  /\ failed' = IF good THEN failed ELSE failed \cup { << i, Key >> }
  /\ log' = lines
  /\ k' = NextCall(k, selected_formats)
  /\ pc' = IF NextCall(k, selected_formats) = EndOfFile THEN "loop" ELSE "call"
  /\ UNCHANGED << wstate, i, sig, err >>

\* An exception leaves the converter call, process_file and the loop of run;
\* run's handler emits error_occurred and the thread ends.
Raises(what, lines) ==
  /\ wstate' = "error"
  /\ sig' = "error"
  /\ err' = what
  /\ failed' = IF pc = "mkdirs" THEN failed ELSE failed \cup { << i, Key >> }
  /\ log' = lines
  /\ UNCHANGED << ret, pc, i, k >>

\* subprocess.run is entered: the thread waits for Inkscape.
Waits(lines) ==
  /\ pc' = "subprocess"
  /\ log' = lines
  /\ UNCHANGED << ret, failed, wstate, i, k, sig, err >>

InCall(op) == wstate = "running" /\ pc = "call" /\ Op = op

\* --------------------------------------------------- float arithmetic
\* A Python float is an IEEE 754 binary64, with 53 significant bits; its
\* operations round to nearest, ties to even.  A float below 2^17 is held
\* here as four limbs of 18 bits, the first before 54 fractional bits, and
\* the count of zero bits that follow the binary point of the whole:
\* the value is (l1 * Limb^3 + l2 * Limb^2 + l3 * Limb + l4) / 2^(54 + zeros).
Limb == 262144

RECURSIVE Pow2(_)
Pow2(n) == IF n = 0 THEN 1 ELSE 2 * Pow2(n - 1)

BitLength(n) == CHOOSE len \in 0..18 : n < Pow2(len) /\ (len = 0 \/ Pow2(len - 1) <= n)

\* carries are taken from the last limb to the first
Carry(l) ==
  LET c4 == l[4] \div Limb
      c3 == (l[3] + c4) \div Limb
      c2 == (l[2] + c3) \div Limb
  IN << l[1] + c2, (l[2] + c3) % Limb, (l[3] + c4) % Limb, l[4] % Limb >>

\* The limbs rounded to nearest, ties to even, the last `drop` bits being
\* those below the 53 significant ones; sticky tells of a remainder below
\* the last limb.
RoundLimbs(l, drop, sticky) ==
  LET unit == Pow2(drop)
      lost == l[4] % unit
      odd == (l[4] \div unit) % 2 = 1
      up == \/ 2 * lost > unit
            \/ 2 * lost = unit /\ (sticky \/ odd)
  IN Carry(<< l[1], l[2], l[3], l[4] - lost + (IF up THEN unit ELSE 0) >>)

\* r / n below one half is doubled until its first binary digit is 1.
RECURSIVE Normalise(_, _)
Normalise(r, n) ==
  IF 2 * r >= n THEN [rem |-> r, zeros |-> 0]
  ELSE LET d == Normalise(2 * r, n)
       IN [rem |-> d.rem, zeros |-> d.zeros + 1]

\* a / b for integers 0 < a < b: long division to 54 bits, then rounding
float_div(a, b) ==
  LET d == Normalise(a, b)
      q2 == (d.rem * Limb) \div b
      r2 == (d.rem * Limb) % b
      q3 == (r2 * Limb) \div b
      r3 == (r2 * Limb) % b
      q4 == (r3 * Limb) \div b
      r4 == (r3 * Limb) % b
  IN [limbs |-> RoundLimbs(<< 0, q2, q3, q4 >>, 1, r4 # 0), zeros |-> d.zeros]

\* x * c for a small integer c: the exact product, then rounding
float_mul(x, c) ==
  LET t4 == x.limbs[4] * c
      t3 == x.limbs[3] * c + t4 \div Limb
      t2 == x.limbs[2] * c + t3 \div Limb
      t1 == x.limbs[1] * c + t2 \div Limb
      exact == << t1, t2 % Limb, t3 % Limb, t4 % Limb >>
  IN [limbs |-> RoundLimbs(exact, 1 + BitLength(t1), FALSE), zeros |-> x.zeros]

\* int(x): the digits before the binary point
int(x) == x.limbs[1] \div Pow2(x.zeros)

\* int((i / total_files) * 100), i being the 0-based index of enumerate
progress_percent(index, total) ==
  IF index = 0 THEN 0 ELSE int(float_mul(float_div(index, total), 100))

params == << selected_formats, scale_factor, force_1x1, made >>

\* ----------------------------------------------------------------- Init
Work == Len(svg_files) + Cardinality(checked) + runs

\* No ConversionWorker has been created.
NoWorker ==
  /\ wstate = "none"
  /\ selected_formats = {}
  /\ scale_factor = 1
  /\ force_1x1 = FALSE
  /\ pc = "mkdirs"
  /\ i = 0
  /\ k = 0
  /\ png_path = Unbound
  /\ eps_path = Unbound
  /\ ret = NonePath
  /\ failed = {}
  /\ log = << >>
  /\ request = NoRequest
  /\ made = {}
  /\ sig = "none"
  /\ err = "none"
  /\ progress = << >>

NoDocument ==
  [xml |-> "none",
   width |-> [present |-> FALSE, text |-> << >>],
   height |-> [present |-> FALSE, text |-> << >>],
   viewBox |-> [present |-> FALSE, text |-> << >>]]

\* _get_svg_dimensions is not being applied to a document.
NoDimensionsCall == svg_doc = NoDocument /\ dimensions = << >>

\* The percentage of run is not being computed on its own.
NoPercentage == loop_index = 0 /\ total_files = 1 /\ current_progress = << >>

\* The user has picked a folder with assets and checked platforms; the output
\* root is fresh.
Init ==
  /\ svg_files \in { [j \in 1..n |-> j] : n \in 1..(MaxWork - 1) }
  /\ checked \in { S \in SUBSET Platforms : Cardinality(S) \in 1..(MaxWork - 1) }
  /\ runs = 0
  /\ Work <= MaxWork
  \* the first and the last entry of scale_options
  /\ scale_combo \in {1, ScaleOptions}
  /\ force_1x1_checkbox \in BOOLEAN
  /\ start_btn = TRUE
  /\ stop_btn = FALSE
  /\ open_folder_btn = FALSE
  /\ toggles = 0
  /\ detached = 0
  /\ dirs = {}
  /\ files = { Source(j) : j \in 1..Len(svg_files) }
  /\ temps = 0
  /\ orphans = 0
  /\ NoWorker
  /\ NoDimensionsCall
  /\ NoPercentage

\* ------------------------------------------------------ ConversionWorker
exist_ok_false == FALSE

exist_ok == TRUE

Index(key) == CHOOSE j \in 1..Len(PlatformOrder) : PlatformOrder[j] = key

\* os.makedirs(platform_dir, exist_ok=...) raises for the platform key.
makedirs_raises(key, io_fail) ==
  key = io_fail \/ (~exist_ok /\ platforms(key) \in dirs)

\* The keys create_output_directories makes a directory for.
directory_keys == selected_formats

create_output_directories ==
  /\ wstate = "running"
  /\ pc = "mkdirs"
  /\ \E io_fail \in directory_keys \cup {None} :
       LET raising == { key \in directory_keys : makedirs_raises(key, io_fail) }
           reached == { key \in directory_keys :
                          \A r \in raising : Index(key) < Index(r) }
           names == { platforms(key) : key \in reached }
           first == CHOOSE r \in raising : \A r2 \in raising : Index(r) <= Index(r2)
       IN /\ dirs' = dirs \cup names
          /\ made' = made \cup names
          /\ IF raising = {}
             THEN /\ pc' = "loop"
                  /\ log' = << "Created directory" >>
                  /\ UNCHANGED << wstate, sig, err, ret, failed, i, k >>
             ELSE Raises(IF first = io_fail THEN "makedirs: OSError"
                         ELSE "makedirs: FileExistsError", << >>)
  /\ UNCHANGED << selected_formats, scale_factor, force_1x1, png_path,
                  eps_path, request >>
  /\ UNCHANGED << files, temps, orphans >>
  /\ UNCHANGED uiVars
  /\ UNCHANGED << progress, pureVars >>

\* The head of the for loop of run, and what follows the loop.
run_loop ==
  /\ wstate = "running"
  /\ pc = "loop"
  /\ IF i < Len(svg_files)
     THEN /\ i' = i + 1
          /\ k' = NextCall(0, selected_formats)
          /\ pc' = IF NextCall(0, selected_formats) = EndOfFile
                   THEN "loop" ELSE "call"
          /\ png_path' = Unbound
          /\ eps_path' = Unbound
          /\ log' = << "Processing" >>
          /\ progress' = Append(progress, progress_percent(i, Len(svg_files)))
          /\ UNCHANGED << wstate, sig, err >>
     ELSE /\ wstate' = "finished"
          /\ sig' = "finished"
          /\ progress' = Append(progress, 100)
          /\ log' = << "All conversions completed successfully!" >>
          /\ UNCHANGED << i, k, pc, png_path, eps_path, err >>
  /\ UNCHANGED << ret, failed, request >>
  /\ UNCHANGED params
  /\ UNCHANGED envVars
  /\ UNCHANGED uiVars
  /\ UNCHANGED pureVars

convert_to_png ==
  /\ InCall("png")
  /\ request' = cairosvg_request("png")
  /\ \E ok \in BOOLEAN :
       IF ok
       THEN /\ files' = WriteFile(files, output_path("png"), "png", {})
            /\ png_path' = IF Key = "pngtree" THEN output_path("png") ELSE png_path
            /\ Returns(output_path("png"), TRUE, << "Created PNG" >>)
       ELSE /\ UNCHANGED << files, png_path >>
            /\ Raises("convert_to_png: svg2png", << >>)
  /\ UNCHANGED eps_path
  /\ UNCHANGED params
  /\ UNCHANGED << dirs, temps, orphans >>
  /\ UNCHANGED uiVars
  /\ UNCHANGED << progress, pureVars >>

\* The temporary PNG is unlinked on the one path that reaches os.unlink.
temp_left(outcome) == IF outcome \in {"ok", "NamedTemporaryFile"} THEN 0 ELSE 1

convert_to_jpg ==
  /\ InCall("jpg")
  /\ \E outcome \in {"ok", "NamedTemporaryFile", "svg2png", "Image.open", "img.save"} :
       /\ temps' = temps + temp_left(outcome)
       /\ request' = IF outcome = "NamedTemporaryFile" THEN request
                     ELSE cairosvg_request("png")
       /\ IF outcome = "ok"
          THEN /\ files' = WriteFile(files, output_path("jpg"), "jpg", {})
               /\ Returns(output_path("jpg"), TRUE, << "Created JPG" >>)
          ELSE /\ UNCHANGED files
               /\ Raises("convert_to_jpg", << >>)
  /\ UNCHANGED << png_path, eps_path >>
  /\ UNCHANGED params
  /\ UNCHANGED << dirs, orphans >>
  /\ UNCHANGED uiVars
  /\ UNCHANGED << progress, pureVars >>

\* What find_inkscape can return: an executable, or None.
find_inkscape == {"inkscape", None}

eps_falls_back_always(primary_ok) == TRUE

\* The except clause of the primary renderer is entered.
eps_falls_back(primary_ok) == ~primary_ok

\* What convert_to_eps returns once subprocess.run has ended.
eps_fallback_return(outcome) ==
  IF outcome = "zero" THEN output_path("eps") ELSE NonePath

assign_eps_path(value) ==
  eps_path' = IF Key = "pngtree" THEN value ELSE eps_path

convert_to_eps ==
  /\ InCall("eps")
  /\ \E primary_ok \in BOOLEAN, inkscape_exe \in find_inkscape,
        width \in IntrinsicWidths :
       LET first == IF primary_ok THEN "Created EPS"
                    ELSE "ERROR creating EPS with cairosvg"
           tried == << first, "cairosvg failed, falling back to Inkscape" >>
       IN /\ files' = IF primary_ok
                      THEN WriteFile(files, output_path("eps"), "eps", {})
                      ELSE files
          /\ IF ~eps_falls_back(primary_ok)
             THEN /\ request' = cairosvg_request("eps")
                  /\ assign_eps_path(output_path("eps"))
                  /\ Returns(output_path("eps"), primary_ok, << first >>)
             ELSE IF inkscape_exe = None \/ width.kind = "nonfinite"
             THEN \* FileNotFoundError, or int() of inf or nan
                  /\ request' = cairosvg_request("eps")
                  /\ assign_eps_path(NonePath)
                  /\ Returns(NonePath, FALSE, tried \o
                       << "ERROR creating EPS with Inkscape fallback" >>)
             ELSE /\ request' = inkscape_eps_request(width)
                  /\ UNCHANGED eps_path
                  /\ Waits(tried)
  /\ UNCHANGED png_path
  /\ UNCHANGED params
  /\ UNCHANGED << dirs, temps, orphans >>
  /\ UNCHANGED uiVars
  /\ UNCHANGED << progress, pureVars >>

\* with open(svg_file, 'rb') as src, open(output_path, 'wb') as dst
copy_svg_body(ok, lines) ==
  IF ok
  THEN /\ files' = WriteFile(files, output_path("svg"), "verbatim", {})
       /\ Returns(output_path("svg"), TRUE, lines \o << "Copied SVG" >>)
  ELSE /\ UNCHANGED files
       /\ Raises("copy_svg", lines)

copy_svg ==
  /\ InCall("copy")
  /\ \E ok \in BOOLEAN : copy_svg_body(ok, << >>)
  /\ UNCHANGED << png_path, eps_path, request >>
  /\ UNCHANGED params
  /\ UNCHANGED << dirs, temps, orphans >>
  /\ UNCHANGED uiVars
  /\ UNCHANGED << progress, pureVars >>

convert_svg_cropped ==
  /\ InCall("crop")
  /\ \E inkscape_exe \in find_inkscape :
       IF inkscape_exe = None
       THEN /\ \E ok \in BOOLEAN :
                 copy_svg_body(ok, << "WARNING: Inkscape not found" >>)
            /\ UNCHANGED request
       ELSE /\ request' = inkscape_crop_request
            /\ UNCHANGED files
            /\ Waits(<< >>)
  /\ UNCHANGED << png_path, eps_path >>
  /\ UNCHANGED params
  /\ UNCHANGED << dirs, temps, orphans >>
  /\ UNCHANGED uiVars
  /\ UNCHANGED << progress, pureVars >>

\* The exceptions of subprocess.run the except clause of convert_svg_cropped
\* catches: CalledProcessError (non-zero exit) and FileNotFoundError.
crop_caught(outcome) == outcome \in {"nonzero", "FileNotFoundError"}

\* subprocess.run(cmd, check=True, ...) ends: exit status zero, non-zero, or
\* the process could not be started.
subprocess_run ==
  /\ wstate = "running"
  /\ pc = "subprocess"
  /\ \E outcome \in {"zero", "nonzero", "FileNotFoundError", "OSError"} :
       IF Op = "eps"
       THEN /\ files' = IF outcome = "zero"
                        THEN WriteFile(files, output_path("eps"), "eps", {})
                        ELSE files
            /\ assign_eps_path(eps_fallback_return(outcome))
            /\ Returns(eps_fallback_return(outcome),
                 eps_fallback_return(outcome) # NonePath,
                 log \o << IF outcome = "zero"
                           THEN "Created EPS (via Inkscape fallback)"
                           ELSE "ERROR creating EPS with Inkscape fallback" >>)
       ELSE /\ UNCHANGED eps_path
            /\ IF outcome = "zero"
               THEN /\ files' = WriteFile(files, output_path("svg"), "cropped", {})
                    /\ Returns(output_path("svg"), TRUE,
                         << "Created cropped SVG using Inkscape" >>)
               ELSE IF crop_caught(outcome)
               THEN \E ok \in BOOLEAN :
                      copy_svg_body(ok, << "WARNING: Inkscape cropping failed" >>)
               ELSE /\ UNCHANGED files
                    /\ Raises("convert_svg_cropped: subprocess.run", << >>)
  /\ UNCHANGED << png_path, request >>
  /\ UNCHANGED params
  /\ UNCHANGED << dirs, temps, orphans >>
  /\ UNCHANGED uiVars
  /\ UNCHANGED << progress, pureVars >>

zip_inputs_png_only == << png_path >>

zip_inputs_eps_only == << eps_path >>

delete_inputs_png_only == << png_path >>

delete_inputs_with_source == << png_path, eps_path, svg_file >>

\* process_file hands [png_path, eps_path] to create_zip_file and delete_files.
zip_inputs == << png_path, eps_path >>

delete_inputs == << png_path, eps_path >>

\* os.path.exists(None) raises TypeError: the index of the first None.
FirstNone(file_paths) ==
  IF \E j \in 1..Len(file_paths) : file_paths[j] = NonePath
  THEN CHOOSE j \in 1..Len(file_paths) :
         /\ file_paths[j] = NonePath
         /\ \A j2 \in 1..(j - 1) : file_paths[j2] # NonePath
  ELSE Len(file_paths) + 1

\* The paths the loop over file_paths finds to exist before it ends or raises.
Reached(file_paths) ==
  { file_paths[j] : j \in { j2 \in 1..(FirstNone(file_paths) - 1) :
                              Exists(files, file_paths[j2]) } }

\* zipf.write(file_path, os.path.basename(file_path))
basename(path) == [base |-> path.base, ext |-> path.ext]

create_zip_file ==
  /\ InCall("zip")
  /\ \E outcome \in {"ok", "ZipFile", "zipf.write"} :
       IF outcome = "ZipFile"
       THEN /\ UNCHANGED files
            /\ Raises("create_zip_file: ZipFile", << >>)
       ELSE IF outcome = "zipf.write"
       THEN /\ Reached(zip_inputs) # {}
            /\ files' = WriteFile(files, output_path("zip"), "zip", {})
            /\ Raises("create_zip_file: zipf.write", << >>)
       ELSE /\ files' = WriteFile(files, output_path("zip"), "zip",
                          { basename(p) : p \in Reached(zip_inputs) })
            /\ IF FirstNone(zip_inputs) <= Len(zip_inputs)
               THEN Raises("create_zip_file: os.path.exists(None)", << >>)
               ELSE Returns(output_path("zip"), TRUE, << "Created ZIP" >>)
  /\ UNCHANGED << png_path, eps_path, request >>
  /\ UNCHANGED params
  /\ UNCHANGED << dirs, temps, orphans >>
  /\ UNCHANGED uiVars
  /\ UNCHANGED << progress, pureVars >>

delete_files ==
  /\ InCall("delete")
  /\ \E failing \in SUBSET Reached(delete_inputs) :
       /\ files' = { f \in files :
                       PathOf(f) \notin Reached(delete_inputs) \ failing }
       /\ IF FirstNone(delete_inputs) <= Len(delete_inputs)
          THEN Raises("delete_files: os.path.exists(None)", << >>)
          ELSE Returns(NonePath, failing = {},
                 IF failing = {} THEN << "Deleted file" >>
                 ELSE << "ERROR deleting file" >>)
  /\ UNCHANGED << png_path, eps_path, request >>
  /\ UNCHANGED params
  /\ UNCHANGED << dirs, temps, orphans >>
  /\ UNCHANGED uiVars
  /\ UNCHANGED << progress, pureVars >>

\* ------------------------------------------------------ SVGConverterApp
start_conversion ==
  /\ start_btn
  /\ Work <= MaxWork
  /\ svg_files # << >>
  /\ checked # {}
  /\ start_btn' = FALSE
  /\ stop_btn' = TRUE
  /\ runs' = runs + 1
  /\ wstate' = "running"
  /\ selected_formats' = checked
  /\ scale_factor' = scale_combo
  /\ force_1x1' = force_1x1_checkbox
  /\ pc' = "mkdirs"
  /\ i' = 0
  /\ k' = 0
  /\ png_path' = Unbound
  /\ eps_path' = Unbound
  /\ ret' = NonePath
  /\ failed' = {}
  /\ log' = << >>
  /\ request' = NoRequest
  /\ made' = {}
  /\ sig' = "none"
  /\ err' = "none"
  /\ progress' = << >>
  \* self.worker is rebound whether or not the thread it named has ended
  /\ detached' = IF wstate = "running" THEN detached + 1 ELSE detached
  /\ UNCHANGED << svg_files, checked, scale_combo, force_1x1_checkbox,
                  open_folder_btn, toggles >>
  /\ UNCHANGED envVars
  /\ UNCHANGED pureVars

conversion_finished_body ==
  /\ start_btn' = TRUE
  /\ stop_btn' = FALSE
  /\ open_folder_btn' = TRUE

\* worker.terminate() ends the thread wherever it is; a subprocess it was
\* waiting for is not signalled.
stop_conversion ==
  /\ stop_btn
  /\ wstate = "running"
  /\ wstate' = "terminated"
  /\ orphans' = IF pc = "subprocess" THEN orphans + 1 ELSE orphans
  /\ conversion_finished_body
  /\ UNCHANGED << svg_files, checked, scale_combo, force_1x1_checkbox, runs,
                  toggles, detached >>
  /\ UNCHANGED << dirs, files, temps >>
  /\ UNCHANGED << selected_formats, scale_factor, force_1x1, pc, i, k,
                  png_path, eps_path, ret, failed, log, request, made, sig,
                  err, progress >>
  /\ UNCHANGED pureVars

conversion_finished ==
  /\ sig = "finished"
  /\ sig' = "none"
  /\ conversion_finished_body
  /\ UNCHANGED << svg_files, checked, scale_combo, force_1x1_checkbox, runs,
                  toggles, detached >>
  /\ UNCHANGED envVars
  /\ UNCHANGED << wstate, selected_formats, scale_factor, force_1x1, pc, i, k,
                  png_path, eps_path, ret, failed, log, request, made, err,
                  progress >>
  /\ UNCHANGED pureVars

conversion_error ==
  /\ sig = "error"
  /\ sig' = "none"
  /\ start_btn' = TRUE
  /\ stop_btn' = FALSE
  /\ UNCHANGED << svg_files, checked, scale_combo, force_1x1_checkbox, runs,
                  open_folder_btn, toggles, detached >>
  /\ UNCHANGED envVars
  /\ UNCHANGED << wstate, selected_formats, scale_factor, force_1x1, pc, i, k,
                  png_path, eps_path, ret, failed, log, request, made, err,
                  progress >>
  /\ UNCHANGED pureVars

\* self.start_btn.setEnabled(folder_selected and platform_selected)
update_start_button_state(listed, boxes) == listed # << >> /\ boxes # {}

\* The user picks input_dir in the dialog; os.listdir finds its SVG files.
browse_folder ==
  /\ svg_files' = [j \in 1..Cardinality({ f \in files : f.dir = input_dir })
                     |-> j]
  /\ start_btn' = update_start_button_state(svg_files', checked)
  /\ UNCHANGED << checked, scale_combo, force_1x1_checkbox, stop_btn,
                  open_folder_btn, runs, toggles, detached >>
  /\ UNCHANGED envVars
  /\ UNCHANGED workerVars
  /\ UNCHANGED pureVars

\* A click on the checkbox of a platform: stateChanged is connected to
\* _update_start_button_state.
toggle_platform ==
  /\ toggles < MaxToggles
  /\ \E key \in Platforms :
       /\ checked' = IF key \in checked THEN checked \ {key}
                     ELSE checked \cup {key}
       /\ start_btn' = update_start_button_state(svg_files, checked')
  /\ toggles' = toggles + 1
  /\ UNCHANGED << svg_files, scale_combo, force_1x1_checkbox, stop_btn,
                  open_folder_btn, runs, detached >>
  /\ UNCHANGED envVars
  /\ UNCHANGED workerVars
  /\ UNCHANGED pureVars

\* setChecked emits stateChanged for the checkboxes whose state changes.
select_all_platforms ==
  /\ toggles < MaxToggles
  /\ checked' = Platforms
  /\ start_btn' = IF checked = Platforms THEN start_btn
                  ELSE update_start_button_state(svg_files, checked')
  /\ toggles' = toggles + 1
  /\ UNCHANGED << svg_files, scale_combo, force_1x1_checkbox, stop_btn,
                  open_folder_btn, runs, detached >>
  /\ UNCHANGED envVars
  /\ UNCHANGED workerVars
  /\ UNCHANGED pureVars

deselect_all_platforms ==
  /\ toggles < MaxToggles
  /\ checked' = {}
  /\ start_btn' = IF checked = {} THEN start_btn
                  ELSE update_start_button_state(svg_files, checked')
  /\ toggles' = toggles + 1
  /\ UNCHANGED << svg_files, scale_combo, force_1x1_checkbox, stop_btn,
                  open_folder_btn, runs, detached >>
  /\ UNCHANGED envVars
  /\ UNCHANGED workerVars
  /\ UNCHANGED pureVars

\* ----------------------------------------------------------------- Spec
Next ==
  \/ start_conversion
  \/ stop_conversion
  \/ conversion_finished
  \/ conversion_error
  \/ create_output_directories
  \/ run_loop
  \/ convert_to_png
  \/ convert_to_jpg
  \/ convert_to_eps
  \/ copy_svg
  \/ convert_svg_cropped
  \/ subprocess_run
  \/ create_zip_file
  \/ delete_files

Spec == Init /\ [][Next]_vars

\* The window as __init__ and init_ui leave it; input_dir holds the assets
\* the user will find there.
InitUI ==
  /\ svg_files = << >>
  /\ checked = {}
  /\ scale_combo = 1
  /\ force_1x1_checkbox = FALSE
  /\ start_btn = FALSE
  /\ stop_btn = FALSE
  /\ open_folder_btn = FALSE
  /\ runs = 0
  /\ toggles = 0
  /\ detached = 0
  /\ dirs = {}
  /\ files \in { { Source(j) : j \in 1..n } : n \in 0..(MaxWork - 1) }
  /\ temps = 0
  /\ orphans = 0
  /\ NoWorker
  /\ NoDimensionsCall
  /\ NoPercentage

NextUI ==
  \/ browse_folder
  \/ toggle_platform
  \/ select_all_platforms
  \/ deselect_all_platforms
  \/ Next

SpecUI == InitUI /\ [][NextUI]_vars

\* --------------------------------------------------------------- claims
InLog(line) == \E n \in 1..Len(log) : log[n] = line

LastCall(key) ==
  CHOOSE m \in 1..NCalls :
    /\ process_file_calls[m].key = key
    /\ \A m2 \in (m + 1)..NCalls : process_file_calls[m2].key # key

\* The worker has made every call of key's recipe for asset j.
Done(j, key) ==
  /\ wstate # "none"
  /\ key \in selected_formats
  /\ \/ j < i
     \/ j = i /\ (pc = "loop" \/ (pc # "mkdirs" /\ k > LastCall(key)))

Exts(dir, j) == { f.ext : f \in { g \in files : g.dir = dir /\ g.base = j } }

SelectedDirs == { platforms(key) : key \in selected_formats }

\* C1: a failure of a single format step never aborts the asset or the job;
\* the run ends with error_occurred only for a job-level error, such as the
\* output directories not being creatable.
C1_StepFailureNeverAbortsJob ==
  wstate = "error" => err = "makedirs: OSError"

\* C2: when the primary EPS renderer and the Inkscape fallback both fail
\* (convert_to_eps returns None), the pipeline goes on with the remaining
\* steps and the job does not crash, for pngtree as for the other platforms.
C2_EpsDoubleFailureContinues ==
  eps_path = NonePath =>
    ~(wstate = "error" /\ err = "create_zip_file: os.path.exists(None)")

\* The file set the recipe table gives each platform.
RecipeFiles(key) ==
  CASE key = "shutterstock" -> {"eps"}
    [] key = "vectorstock"  -> {"eps", "jpg"}
    [] key = "pngtree"      -> {"zip"}
    [] key = "dreamstime"   -> {"jpg", "eps"}
    [] key = "adobestock"   -> {"svg"}
    [] key = "canva"        -> {"png"}
    [] key = "miricanvas"   -> {"svg"}
    [] key = "desainstock"  -> {"jpg"}

RecipeDoneCleanly(j, key) == Done(j, key) /\ << j, key >> \notin failed

\* C3: once the recipe of a platform has run for an asset with every
\* converter succeeding, the platform's directory holds for that asset exactly
\* the files of the recipe table; and no step writes a file into the directory
\* of a platform that is not selected.
C3_RecipeFileSets ==
  /\ [](\A key \in Platforms, j \in 1..Len(svg_files) :
          RecipeDoneCleanly(j, key) =>
            Exts(platforms(key), j) = RecipeFiles(key))
  /\ [][\A f \in files' \ files : f.dir \in SelectedDirs]_vars

C3_Witness ==
  \E j \in 1..Len(svg_files) :
    /\ RecipeDoneCleanly(j, "pngtree")
    /\ RecipeDoneCleanly(j, "vectorstock")
    /\ Exts("Vectorstock", j) = {"eps", "jpg"}

\* C4: after the pngtree recipe completed successfully for an asset, the ZIP
\* exists in PNGTree and holds <base>.png and <base>.eps, and neither loose
\* file is left in PNGTree.
C4_ArchiveAndDelete ==
  \A j \in 1..Len(svg_files) :
    RecipeDoneCleanly(j, "pngtree") =>
      /\ \E f \in files :
           /\ PathOf(f) = [dir |-> "PNGTree", base |-> j, ext |-> "zip"]
           /\ [base |-> j, ext |-> "png"] \in f.entries
           /\ [base |-> j, ext |-> "eps"] \in f.entries
      /\ ~Exists(files, [dir |-> "PNGTree", base |-> j, ext |-> "png"])
      /\ ~Exists(files, [dir |-> "PNGTree", base |-> j, ext |-> "eps"])

C4_Witness ==
  /\ RecipeDoneCleanly(1, "pngtree")
  /\ Exists(files, [dir |-> "PNGTree", base |-> 1, ext |-> "zip"])
  /\ wstate = "finished"

PrimaryFailed == log # << >> /\ log[1] = "ERROR creating EPS with cairosvg"
PrimarySucceeded == log # << >> /\ log[1] = "Created EPS"
FallbackEntered == InLog("cairosvg failed, falling back to Inkscape")
FallbackExitedZero == InLog("Created EPS (via Inkscape fallback)")
FallbackFailed == InLog("ERROR creating EPS with Inkscape fallback")

\* C5: in every call of convert_to_eps the primary renderer is attempted
\* first; the Inkscape fallback is entered exactly when the primary renderer
\* failed; and when Inkscape then exits with status zero the call returns the
\* output path, which exists.
C5_EpsFallbackChain ==
  /\ (FallbackEntered \/ FallbackExitedZero \/ FallbackFailed) =>
       (PrimaryFailed \/ PrimarySucceeded)
  /\ PrimarySucceeded => ~FallbackEntered
  /\ PrimaryFailed => FallbackEntered
  /\ (wstate # "none" /\ pc = "subprocess" /\ Op = "eps") => PrimaryFailed
  /\ FallbackExitedZero =>
       /\ PrimaryFailed
       /\ ret # NonePath
       /\ ret.ext = "eps"
       /\ Exists(files, ret)

C5_Witness ==
  /\ PrimaryFailed
  /\ FallbackExitedZero
  /\ ret = [dir |-> "Shutterstock", base |-> 1, ext |-> "eps"]

\* C6: whatever fails on the cropping path of convert_svg_cropped, the step
\* ends with a verbatim copy of the source as <base>.svg and the failure does
\* not leave the step.
C6_CroppingFailureFallsBackToCopy ==
  /\ err # "convert_svg_cropped: subprocess.run"
  /\ (InLog("WARNING: Inkscape cropping failed") /\ InLog("Copied SVG")) =>
       \E f \in files : PathOf(f) = ret /\ f.content = "verbatim"

\* C7: with force_1x1 every PNG and EPS render request, the Inkscape fallback
\* included, asks for width = height = 1000 * scale_factor.
C7_SquareMode ==
  (wstate # "none" /\ force_1x1 /\ request.fmt \in {"png", "eps"}) =>
    /\ request.output_width = BaseDim * scale_factor
    /\ request.output_height = BaseDim * scale_factor

\* C8: a stop request takes effect only between file iterations, so no asset
\* is left half-processed, and no Inkscape subprocess is left running.
C8_CooperativeCancellation ==
  wstate = "terminated" =>
    /\ pc \in {"mkdirs", "loop"}
    /\ orphans = 0

\* C9: the temporary PNG of convert_to_jpg is removed on every exit path, so
\* no temporary file of a finished call remains.
C9_TempFileRemoved == temps = 0

\* C10: the directory of every selected platform exists before any output
\* file of the job is written; directories are made only for selected
\* platforms; and the job does not fail on directories that already exist.
C10_OutputDirectories ==
  /\ [][files' # files => SelectedDirs \subseteq dirs]_vars
  /\ []((wstate = "running" /\ pc # "mkdirs") => SelectedDirs \subseteq dirs)
  /\ [](made \subseteq SelectedDirs)
  /\ [](err # "makedirs: FileExistsError")

C10_Witness ==
  /\ runs = 2
  /\ wstate = "finished"
  /\ made = SelectedDirs
  /\ \E f \in files : f.dir \in SelectedDirs

\* ------------------------------------------------- _get_svg_dimensions
\* A string is a sequence of characters.
Digits == {"0", "1", "2", "3", "4", "5", "6", "7", "8", "9"}

DigitValue(c) ==
  CASE c = "0" -> 0 [] c = "1" -> 1 [] c = "2" -> 2 [] c = "3" -> 3
    [] c = "4" -> 4 [] c = "5" -> 5 [] c = "6" -> 6 [] c = "7" -> 7
    [] c = "8" -> 8 [] c = "9" -> 9

\* The last index of the longest run of characters of `class` that starts at
\* `from`; from - 1 when there is none.
RunEnd(text, from, class) ==
  CHOOSE e \in (from - 1)..Len(text) :
    /\ \A m \in from..e : text[m] \in class
    /\ e = Len(text) \/ text[e + 1] \notin class

\* re.search(r'(\d+\.?\d*)', text): the leftmost digit, the digits after it,
\* a point if one follows, and the digits after the point.
re_search(text) ==
  IF \A m \in 1..Len(text) : text[m] \notin Digits
  THEN [matched |-> FALSE, group |-> << >>]
  ELSE LET first == CHOOSE m \in 1..Len(text) :
                      /\ text[m] \in Digits
                      /\ \A m2 \in 1..(m - 1) : text[m2] \notin Digits
           whole == RunEnd(text, first, Digits)
           last == IF whole < Len(text) /\ text[whole + 1] = "."
                   THEN RunEnd(text, whole + 2, Digits) ELSE whole
       IN [matched |-> TRUE, group |-> SubSeq(text, first, last)]

\* float(text) raises ValueError unless text is a number; of the characters
\* of the documents here a number has digits and at most one point.
float_raises(text) ==
  \/ \E m \in 1..Len(text) : text[m] \notin Digits \cup {"."}
  \/ \A m \in 1..Len(text) : text[m] \notin Digits
  \/ \E m, m2 \in 1..Len(text) : m # m2 /\ text[m] = "." /\ text[m2] = "."

RECURSIVE DigitsToInt(_)
DigitsToInt(text) ==
  IF text = << >> THEN 0
  ELSE 10 * DigitsToInt(SubSeq(text, 1, Len(text) - 1)) + DigitValue(text[Len(text)])

\* The number float(text) returns: its whole part, and the digits after the
\* point up to the last that is not zero.
float(text) ==
  LET point == IF \E m \in 1..Len(text) : text[m] = "."
               THEN CHOOSE m \in 1..Len(text) : text[m] = "."
               ELSE Len(text) + 1
      after == SubSeq(text, point + 1, Len(text))
      kept == IF \E m \in 1..Len(after) : after[m] # "0"
              THEN CHOOSE m \in 1..Len(after) :
                     /\ after[m] # "0"
                     /\ \A m2 \in (m + 1)..Len(after) : after[m2] = "0"
              ELSE 0
  IN [kind |-> "float", whole |-> DigitsToInt(SubSeq(text, 1, point - 1)),
      frac |-> SubSeq(after, 1, kept)]

NoneValue == [kind |-> "None", whole |-> 0, frac |-> << >>]

\* bool(value): None and 0.0 are false
truthy(value) ==
  value.kind = "float" /\ (value.whole # 0 \/ value.frac # << >>)

\* width_str = root.get('width'); if width_str: match = ...; if match: ...
parse_length(attr) ==
  IF attr.present /\ attr.text # << >> /\ re_search(attr.text).matched
  THEN float(re_search(attr.text).group)
  ELSE NoneValue

\* viewBox.split(): the runs of characters that are not white space
split(text) ==
  LET starts == { m \in 1..Len(text) :
                    text[m] # " " /\ (m = 1 \/ text[m - 1] = " ") }
      nth(n) == CHOOSE m \in starts :
                  Cardinality({ m2 \in starts : m2 < m }) = n - 1
  IN [n \in 1..Cardinality(starts) |->
        SubSeq(text, nth(n), RunEnd(text, nth(n), { text[m] : m \in 1..Len(text) } \ {" "}))]

Unknown(logged) == [width |-> NoneValue, height |-> NoneValue, logged |-> logged]

uses_both(width, height) == truthy(width) /\ truthy(height)

get_svg_dimensions(doc) ==
  IF doc.xml = "malformed"
  THEN Unknown(TRUE)                     \* ET.parse raises; except Exception
  ELSE LET width == parse_length(doc.width)
           height == parse_length(doc.height)
           parts == split(doc.viewBox.text)
       IN IF uses_both(width, height)
          THEN [width |-> width, height |-> height, logged |-> FALSE]
          ELSE IF doc.viewBox.present /\ doc.viewBox.text # << >>
                  /\ Len(parts) = 4
          THEN IF float_raises(parts[3]) \/ float_raises(parts[4])
               THEN Unknown(TRUE)        \* ValueError; except Exception
               ELSE [width |-> float(parts[3]), height |-> float(parts[4]),
                     logged |-> FALSE]
          ELSE Unknown(FALSE)

\* The characters of the attributes of the documents.
AttrChars == {"0", "2", ".", "p"}
ViewBoxTokens == { << "0" >>, << "2" >>, << "x" >> }

Strings(chars, n) == UNION { [1..len -> chars] : len \in 0..n }

RECURSIVE Join(_)
Join(tokens) ==
  IF tokens = << >> THEN << >>
  ELSE IF Len(tokens) = 1 THEN tokens[1]
  ELSE tokens[1] \o << " " >> \o Join(Tail(tokens))

Absent == [present |-> FALSE, text |-> << >>]

Lengths == { Absent } \cup { [present |-> TRUE, text |-> t] : t \in Strings(AttrChars, MaxAttrLen) }

ViewBoxes ==
  { Absent } \cup { [present |-> TRUE, text |-> Join(ts)] :
                      ts \in Strings(ViewBoxTokens, MaxTokens) }

Documents ==
  { [xml |-> "malformed", width |-> Absent, height |-> Absent, viewBox |-> Absent] }
    \cup { [xml |-> "well-formed", width |-> w, height |-> h, viewBox |-> v] :
            w \in Lengths, h \in Lengths, v \in ViewBoxes }

\* A worker is about to read the dimensions of a document.
InitDims ==
  /\ svg_files = << 1 >>
  /\ checked = {}
  /\ scale_combo = 1
  /\ force_1x1_checkbox = FALSE
  /\ start_btn = FALSE
  /\ stop_btn = FALSE
  /\ open_folder_btn = FALSE
  /\ runs = 0
  /\ toggles = 0
  /\ detached = 0
  /\ dirs = {}
  /\ files = { Source(1) }
  /\ temps = 0
  /\ orphans = 0
  /\ NoWorker
  /\ svg_doc \in Documents
  /\ dimensions = << >>
  /\ NoPercentage

get_svg_dimensions_call ==
  /\ svg_doc # NoDocument
  /\ dimensions = << >>
  /\ dimensions' = << get_svg_dimensions(svg_doc) >>
  /\ UNCHANGED << svg_doc, loop_index, total_files, current_progress >>
  /\ UNCHANGED uiVars
  /\ UNCHANGED envVars
  /\ UNCHANGED workerVars

NextDims == get_svg_dimensions_call

SpecDims == InitDims /\ [][NextDims]_vars

\* ------------------------------------------------- the percentage of run
\* The loop of run is at the asset of index loop_index of total_files.
InitProgress ==
  /\ svg_files = << >>
  /\ checked = {}
  /\ scale_combo = 1
  /\ force_1x1_checkbox = FALSE
  /\ start_btn = FALSE
  /\ stop_btn = FALSE
  /\ open_folder_btn = FALSE
  /\ runs = 0
  /\ toggles = 0
  /\ detached = 0
  /\ dirs = {}
  /\ files = {}
  /\ temps = 0
  /\ orphans = 0
  /\ NoWorker
  /\ NoDimensionsCall
  /\ total_files \in 1..MaxTotalFiles
  /\ loop_index \in 0..(total_files - 1)
  /\ current_progress = << >>

\* current_progress = int((i / total_files) * 100)
run_current_progress ==
  /\ current_progress = << >>
  /\ current_progress' = << progress_percent(loop_index, total_files) >>
  /\ UNCHANGED << svg_doc, dimensions, loop_index, total_files >>
  /\ UNCHANGED uiVars
  /\ UNCHANGED envVars
  /\ UNCHANGED workerVars

NextProgress == run_current_progress

SpecProgress == InitProgress /\ [][NextProgress]_vars

\* C11: under any sequence of UI actions (folder selection, checkbox toggles,
\* Select All, Deselect All, Start, Stop) a second conversion worker is never
\* started while a previous one is still running.
C11_SingleWorker == detached = 0

\* An attribute from which the reader gets a number.
Parses(attr) == attr.present /\ re_search(attr.text).matched

\* A viewBox whose third and fourth of four tokens are numbers.
ViewBoxYields(doc) ==
  /\ doc.viewBox.present
  /\ Len(split(doc.viewBox.text)) = 4
  /\ ~float_raises(split(doc.viewBox.text)[3])
  /\ ~float_raises(split(doc.viewBox.text)[4])

IsPair(result) == result.width.kind = "float" /\ result.height.kind = "float"
IsUnknown(result) == result.width = NoneValue /\ result.height = NoneValue

\* C12: the reader returns two numbers or Unknown, never one of each; it
\* returns the root width and height when both parse, otherwise the third and
\* fourth tokens of viewBox, and Unknown when neither yields two numbers;
\* malformed XML yields Unknown and a log event.
C12_DimensionsReader ==
  dimensions # << >> =>
    LET result == dimensions[1]
        doc == svg_doc
    IN /\ IsPair(result) \/ IsUnknown(result)
       /\ doc.xml = "malformed" => IsUnknown(result) /\ result.logged
       /\ doc.xml = "well-formed" =>
            IF Parses(doc.width) /\ Parses(doc.height)
            THEN /\ result.width = float(re_search(doc.width.text).group)
                 /\ result.height = float(re_search(doc.height.text).group)
            ELSE IF ViewBoxYields(doc)
            THEN /\ result.width = float(split(doc.viewBox.text)[3])
                 /\ result.height = float(split(doc.viewBox.text)[4])
            ELSE IsUnknown(result)

PlatformDirs == { platforms(key) : key \in Platforms }

C14_ProgressPercentage ==
  current_progress # << >> =>
    current_progress[1] = (100 * loop_index) \div total_files

\* The events of a worker: one per asset entered, in order, each the
\* percentage of its index, below 100; 100 once, last, on a finished run only.
ProgressEvents ==
  wstate # "none" =>
    LET events == IF wstate = "finished" THEN Len(progress) - 1
                  ELSE Len(progress)
    IN /\ events = i
       /\ \A n \in 1..events :
            /\ progress[n] = progress_percent(n - 1, Len(svg_files))
            /\ progress[n] < 100
            /\ n > 1 => progress[n - 1] <= progress[n]
       /\ wstate = "finished" =>
            /\ i = Len(svg_files)
            /\ progress[Len(progress)] = 100

ArchiveFailed ==
  /\ wstate = "error"
  /\ err \in { "create_zip_file: ZipFile", "create_zip_file: zipf.write",
                "create_zip_file: os.path.exists(None)" }

\* C15: a loose PNG or EPS is deleted from PNGTree only if the ZIP of the same
\* asset exists and holds an entry with that file's base name; when the
\* creation of the archive fails, neither loose file is deleted.
C15_NoDerivativeLost ==
  /\ [][\A f \in files :
          (f.dir = "PNGTree" /\ f.ext \in {"png", "eps"}
             /\ ~Exists(files', PathOf(f))) =>
            \E z \in files' :
              /\ PathOf(z) = [dir |-> "PNGTree", base |-> f.base, ext |-> "zip"]
              /\ basename(PathOf(f)) \in z.entries]_vars
  /\ [](ArchiveFailed =>
          /\ Exists(files, png_path)
          /\ eps_path # NonePath => Exists(files, eps_path))

C15_Witness ==
  /\ wstate = "running"
  /\ log = << "Deleted file" >>
  /\ \E z \in files :
       /\ PathOf(z) = [dir |-> "PNGTree", base |-> i, ext |-> "zip"]
       /\ z.entries = { [base |-> i, ext |-> "png"], [base |-> i, ext |-> "eps"] }
  /\ ~Exists(files, [dir |-> "PNGTree", base |-> i, ext |-> "png"])
  /\ ~Exists(files, [dir |-> "PNGTree", base |-> i, ext |-> "eps"])

C15_ArchiveFailedWitness == ArchiveFailed /\ eps_path # NonePath

====
